---------------------------- MODULE Spec2Model ----------------------------
(***************************************************************************)
(* A model of ImageDataProvider (src/src_3d/core/image_dataset.py): the    *)
(* data provider that pairs target volumes with atlas combinations, crops, *)
(* normalises and one-hot encodes them, and collates samples into batches. *)
(*                                                                         *)
(* Conventions.  A volume is a record [shape, data]: shape is the triple   *)
(* of axis lengths and data maps every voxel coordinate (0-based, as in    *)
(* numpy) to its value.  An ndarray with a leading sample axis is the      *)
(* sequence of its entries along that axis.  Python's 0-based index k of a *)
(* tuple is position k+1 of the TLA+ sequence.  Label intensities read     *)
(* from a file are real numbers; they are held in units of 1/2 so that     *)
(* np.around has something to round.                                       *)
(***************************************************************************)
EXTENDS Integers, Sequences, FiniteSets, TLC

VARIABLES
    self,       \* the provider's attributes, set by __init__
    op,         \* which method the harness has called, and how it ended
    gt,         \* _process_label: the ground-truth array passed in
    label,      \* _process_label: the array returned
    all_target_files,           \* _find_data_names: the sorted listing of the target pattern
    all_atlas_files,            \* _find_data_names: the sorted listing of the atlas pattern
    target_atlas_image_names,   \* self.target_atlas_image_names: the SampleKeys
    args,       \* __init__: the arguments passed in
    call,       \* _process_image: the arguments of the call
    processed,  \* _process_image: the array returned
    fg_label,   \* get_roi_coordinates, _get_foreground_center: the label passed in
    mag_rate,   \* get_roi_coordinates: the magnification rate, a fraction [num, den]
    roi_ret,    \* get_roi_coordinates, _get_foreground_center: the value returned
    constructed,    \* self as __init__ left it
    disk,           \* the volume files: path -> volume
    num_workers,    \* how many workers call __getitem__ on the provider
    batch_indices,  \* the dataset indices of the batch being fetched
    pos,            \* the next position of batch_indices to hand to a worker
    pc,             \* per worker: where it is in __getitem__
    loc,            \* per worker: the local variables of its __getitem__ call
    fetched,        \* per position: what __getitem__ raised or returned
    batch           \* what collate_fn returned

labelVars == <<gt, label>>
namesVars == <<all_target_files, all_atlas_files, target_atlas_image_names, args>>
roiVars == <<fg_label, mag_rate, roi_ret>>
imageVars == <<call, processed>>
itemVars == <<constructed, disk, num_workers, batch_indices, pos, pc, loc, fetched, batch>>
vars == <<self, op, labelVars, namesVars, roiVars, imageVars, itemVars>>

-----------------------------------------------------------------------------
(* Bounds of the model.                                                    *)

MaxClass == 3          \* n_class ranges over 1..MaxClass
MaxIntensity == 2      \* label intensities range over 0..MaxIntensity
MaxLabelLen == 2       \* _process_label is tried on arrays of 1..MaxLabelLen voxels
MaxNAtlas == 2         \* n_atlas ranges over 1..MaxNAtlas
MaxDimX == 3           \* volumes have 1..MaxDimX voxels along the first axis,
MaxDimY == 2           \*   1..MaxDimY along the second
MaxDimZ == 1           \*   and 1..MaxDimZ along the third

-----------------------------------------------------------------------------
(* Generic helpers.                                                        *)

None == "None"

Axes == 1..3

Min(a, b) == IF a <= b THEN a ELSE b

Max(a, b) == IF a >= b THEN a ELSE b

Range(s) == {s[i] : i \in DOMAIN s}

RECURSIVE SumSeq(_)
SumSeq(s) == IF s = <<>> THEN 0 ELSE Head(s) + SumSeq(Tail(s))

\* The coordinates of an array of the given shape.
Voxels(shape) == (0..shape[1]-1) \X (0..shape[2]-1) \X (0..shape[3]-1)

\* tuple[k] with Python's 0-based k.
At(tuple, k) == tuple[k + 1]

-----------------------------------------------------------------------------
(* __init__: the attributes and their defaults.                            *)

\* An intensity bound: not given, a number, or an infinity.
Unset == [kind |-> "None", v |-> 0]
Num(n) == [kind |-> "num", v |-> n]
NegInf == [kind |-> "-inf", v |-> 0]
PosInf == [kind |-> "inf", v |-> 0]

\* self.a_min = a_min if a_min is not None else -np.inf
InitAMin(a_min) == IF a_min.kind # "None" THEN a_min ELSE NegInf

\* self.a_max = a_max if a_min is not None else np.inf
InitAMax(a_min, a_max) == IF a_min.kind # "None" THEN a_max ELSE PosInf

\* The target search pattern of the model.
TargetPattern == "targets/*"

\* self.atlas_search_path = atlas_search_path if atlas_search_path else
\* target_search_path: None and the empty string give way.
InitAtlasSearchPath(atlas_search_path, target_search_path) ==
    IF atlas_search_path \notin {None, ""} THEN atlas_search_path ELSE target_search_path

\* patch_center=None: no coordinate.
NoCenter == <<>>

\* A dict without entries, such as kwargs once "logger" is popped.
EmptyDict == [key \in {} |-> None]

DefaultSelf ==
    [ target_search_path |-> TargetPattern,
      atlas_search_path |-> InitAtlasSearchPath(None, TargetPattern),
      a_min |-> InitAMin(Unset),
      a_max |-> InitAMax(Unset, Unset),
      n_atlas |-> 1,
      crop_patch |-> FALSE,
      random_crop |-> FALSE,
      patch_size |-> <<64, 64, 64>>,
      crop_roi |-> FALSE,
      patch_center |-> NoCenter,
      channels |-> 1,
      n_class |-> 2,
      label_intensity |-> <<0, 205>>,
      image_normalization |-> TRUE,
      image_augmentation |-> FALSE,
      stage |-> "single",
      target_modality |-> "mr",
      atlas_modality |-> "mr",
      kwargs |-> EmptyDict,
      image_name_index_begin |-> 0,
      image_name_index_end |-> -1,
      weight_suffix |-> None,
      image_suffix |-> <<"i", "m", "a", "g", "e", ".", "n", "i", "i", ".", "g", "z">>,
      label_suffix |-> <<"l", "a", "b", "e", "l", ".", "n", "i", "i", ".", "g", "z">> ]

-----------------------------------------------------------------------------
(* _process_label.                                                         *)

\* np.around of h/2: to the nearest integer, a tie to the even one.
Around(h) ==
    IF h % 2 = 0 THEN h \div 2
    ELSE LET k == (h - 1) \div 2 IN IF k % 2 = 0 THEN k ELSE k + 1

\* Channel k >= 1 of one voxel: gt == label_intensity[k] after rounding.
ForegroundChannel(slf, h, k) ==
    IF Around(h) = At(slf.label_intensity, k) THEN 1 ELSE 0

\* A slip: the sum itself, its negation forgotten.
BackgroundChannelNotNegated(fgChannels) == IF SumSeq(fgChannels) = 0 THEN 0 ELSE 1

\* Channel 0 of one voxel: logical_not of the sum of the other channels.
BackgroundChannel(fgChannels) == IF SumSeq(fgChannels) = 0 THEN 1 ELSE 0

\* The channels of one voxel, channel 0 first.
OneHot(slf, h) ==
    LET fgChannels == [k \in 1..(slf.n_class - 1) |-> ForegroundChannel(slf, h, k)]
    IN  <<BackgroundChannel(fgChannels)>> \o fgChannels

\* _process_label(gt): [1, nx, ny, nz, n_class].
ProcessLabel(slf, g) ==
    << [shape |-> g.shape, data |-> [v \in DOMAIN g.data |-> OneHot(slf, g.data[v])]] >>

-----------------------------------------------------------------------------
(* The label encoder on its own: every table, every small array.           *)

\* label_intensity[0] is never read; it stays 0.
LabelTables(n) ==
    {<<0>> \o t : t \in [1..(n - 1) -> 0..MaxIntensity]}

LabelArrays ==
    UNION {[shape : {<<n, 1, 1>>}, data : [Voxels(<<n, 1, 1>>) -> 0..(2 * MaxIntensity + 1)]]
           : n \in 1..MaxLabelLen}

LabelIdle == gt = None /\ label = None

NamesIdle ==
    /\ all_target_files = <<>>
    /\ all_atlas_files = <<>>
    /\ target_atlas_image_names = <<>>
    /\ args = None

RoiIdle == fg_label = None /\ mag_rate = None /\ roi_ret = None

ImageIdle == call = None /\ processed = None

\* A position of the batch: not fetched yet, failed, or fetched.
Pending == [done |-> FALSE, raised |-> None, sample |-> None]

Failed(exception) == [done |-> TRUE, raised |-> exception, sample |-> None]

Fetched(sample) == [done |-> TRUE, raised |-> None, sample |-> sample]

\* The batch before collate_fn has run.
NotCollated == [done |-> FALSE, raised |-> None, value |-> None]

ItemIdle ==
    /\ constructed = None
    /\ disk = EmptyDict
    /\ num_workers = 0
    /\ batch_indices = <<>>
    /\ pos = 1
    /\ pc = <<>>
    /\ loc = <<>>
    /\ fetched = <<>>
    /\ batch = NotCollated

InitLabel ==
    /\ ImageIdle
    /\ NamesIdle
    /\ RoiIdle
    /\ ItemIdle
    /\ \E n \in 1..MaxClass : \E t \in LabelTables(n) :
          self = [DefaultSelf EXCEPT !.n_class = n, !.label_intensity = t]
    /\ gt \in LabelArrays
    /\ label = None
    /\ op = "ready"

CallProcessLabel ==
    /\ op = "ready"
    /\ label' = ProcessLabel(self, gt)
    /\ op' = "_process_label"
    /\ UNCHANGED <<self, gt, namesVars, roiVars, itemVars, imageVars>>

NextLabel == CallProcessLabel

SpecLabel == InitLabel /\ [][NextLabel]_vars

\* The voxels of the returned array: its single entry along the sample axis.
Encoded == label[1].data

MatchesForeground(v) ==
    \E k \in 1..(self.n_class - 1) : Around(gt.data[v]) = At(self.label_intensity, k)

ExactlyOneActive ==
    \A v \in DOMAIN gt.data :
        /\ Len(Encoded[v]) = self.n_class
        /\ \A c \in 1..self.n_class : Encoded[v][c] \in {0, 1}
        /\ SumSeq(Encoded[v]) = 1
        /\ (Encoded[v][1] = 1) <=> ~MatchesForeground(v)

ForegroundIntensitiesDistinct ==
    \A j, k \in 1..(self.n_class - 1) :
        j # k => At(self.label_intensity, j) # At(self.label_intensity, k)

\* C1 as stated: for every label array and every label_intensity table of
\* length n_class, the array _process_label returns has, at every voxel,
\* n_class channels that are each 0 or 1 and sum to 1, channel 0 being the
\* active one exactly when no foreground intensity matches.
C1_OneHotAnyTable ==
    op = "_process_label" => ExactlyOneActive

\* C1 amended: the same, for the tables whose foreground intensities
\* label_intensity[1..n_class-1] are pairwise distinct.
C1_OneHotDistinctTable ==
    (op = "_process_label" /\ ForegroundIntensitiesDistinct) => ExactlyOneActive

\* C1 witness: a table of three distinct intensities has encoded an array
\* holding both a background voxel and a voxel of the last class.
C1_Witness ==
    /\ op = "_process_label"
    /\ ForegroundIntensitiesDistinct
    /\ self.n_class = 3
    /\ \E v, w \in DOMAIN gt.data : Encoded[v] = <<1, 0, 0>> /\ Encoded[w] = <<0, 0, 1>>

-----------------------------------------------------------------------------
(* _find_data_names.  A file name is the sequence of its characters.       *)

\* s[b:e] of Python: negative indices count from the end, both are clipped.
PySlice(s, b, e) ==
    LET n == Len(s)
        lo == IF b < 0 THEN Max(b + n, 0) ELSE Min(b, n)
        hi == IF e < 0 THEN Max(e + n, 0) ELSE Min(e, n)
    IN  IF lo >= hi THEN <<>> ELSE SubSeq(s, lo + 1, hi)

\* sub in s, of Python strings.
Contains(sub, s) ==
    \E i \in 1..(Len(s) - Len(sub) + 1) : SubSeq(s, i, i + Len(sub) - 1) = sub

\* os.path.basename: what follows the last "/".
Basename(path) ==
    LET slashes == {i \in DOMAIN path : path[i] = "/"}
    IN  IF slashes = {} THEN path
        ELSE SubSeq(path, (CHOOSE i \in slashes : \A j \in slashes : j <= i) + 1, Len(path))

\* [name for name in files if name_suffix in name]
WithSuffix(files, name_suffix) ==
    SelectSeq(files, LAMBDA name : Contains(name_suffix, name))

TargetPrefix == <<"t", "a", "r", "g", "e", "t", "-">>

\* 'target-' + t_name[image_name_index_begin:image_name_index_end]
TargetMarker(slf, target_name) ==
    TargetPrefix \o PySlice(Basename(target_name),
                            slf.image_name_index_begin, slf.image_name_index_end)

\* A slip: the marker without its 'target-' prefix.
AtlasMatchesSliceOnly(slf, target_name, name) ==
    Contains(PySlice(Basename(target_name),
                     slf.image_name_index_begin, slf.image_name_index_end), name)

\* The screen of line 293: the marker occurs in the atlas name as listed.
AtlasMatches(slf, target_name, name) ==
    Contains(TargetMarker(slf, target_name), name)

\* A slip: the last element never starts or joins a combination.
RECURSIVE CombinationsDropLast(_, _)
CombinationsDropLast(s, r) ==
    IF r = 0 THEN << <<>> >>
    ELSE IF Len(s) <= r THEN <<>>
    ELSE LET withHead == CombinationsDropLast(Tail(s), r - 1)
         IN  [i \in 1..Len(withHead) |-> <<Head(s)>> \o withHead[i]]
             \o CombinationsDropLast(Tail(s), r)

\* list(itertools.combinations(s, r)): the r-subsequences, in position order.
RECURSIVE Combinations(_, _)
Combinations(s, r) ==
    IF r = 0 THEN << <<>> >>
    ELSE IF Len(s) < r THEN <<>>
    ELSE LET withHead == Combinations(Tail(s), r - 1)
         IN  [i \in 1..Len(withHead) |-> <<Head(s)>> \o withHead[i]]
             \o Combinations(Tail(s), r)

\* list(itertools.product(targets, combs)): target-major.
RECURSIVE Product(_, _)
Product(targets, combs) ==
    IF targets = <<>> THEN <<>>
    ELSE [i \in 1..Len(combs) |-> <<Head(targets), combs[i]>>]
         \o Product(Tail(targets), combs)

\* list(itertools.chain(*lists))
RECURSIVE Chain(_)
Chain(lists) == IF lists = <<>> THEN <<>> ELSE Head(lists) \o Chain(Tail(lists))

\* The multi-stage branch: per target, the combinations of its screened atlases.
MultiStageNames(slf, target_names, atlas_names) ==
    Chain([t \in 1..Len(target_names) |->
             LET a_names == SelectSeq(atlas_names,
                                LAMBDA name : AtlasMatches(slf, target_names[t], name))
             IN  Product(<<target_names[t]>>, Combinations(a_names, slf.n_atlas))])

\* The single-stage branch.
SingleStageNames(slf, target_names, atlas_names) ==
    Product(target_names, Combinations(atlas_names, slf.n_atlas))

\* _find_data_names: what it raises, or the list it returns.
FindDataNames(slf, target_files, atlas_files, name_suffix) ==
    LET target_names == WithSuffix(target_files, name_suffix)
        atlas_names == WithSuffix(atlas_files, name_suffix)
    IN  IF Len(target_names) = 0
          THEN [raised |-> "AssertionError", value |-> <<>>]
        ELSE IF slf.stage = "multi"
          THEN [raised |-> None, value |-> MultiStageNames(slf, target_names, atlas_names)]
        ELSE [raised |-> None, value |-> SingleStageNames(slf, target_names, atlas_names)]

-----------------------------------------------------------------------------
(* The name matcher on its own: every listing drawn from two directories.  *)

ImageSuffix == <<"i", "m">>

TargetA == <<"d", "/", "a", "1", "i", "m">>
TargetALabel == <<"d", "/", "a", "1", "l", "b">>
TargetB == <<"d", "/", "b", "2", "i", "m">>
TargetC == <<"d", "/", "c", "3", "i", "m">>
AtlasPlain == <<"d", "/", "w", "i", "m">>
AtlasXA == <<"d", "/", "x", "_", "t", "a", "r", "g", "e", "t", "-", "a", "1", "i", "m">>
AtlasXALabel == <<"d", "/", "x", "_", "t", "a", "r", "g", "e", "t", "-", "a", "1", "l", "b">>
AtlasXB == <<"d", "/", "x", "_", "t", "a", "r", "g", "e", "t", "-", "b", "2", "i", "m">>
AtlasYA == <<"d", "/", "y", "_", "t", "a", "r", "g", "e", "t", "-", "a", "1", "i", "m">>
AtlasYB == <<"d", "/", "y", "_", "t", "a", "r", "g", "e", "t", "-", "b", "2", "i", "m">>
AtlasInDirA == <<"t", "a", "r", "g", "e", "t", "-", "a", "1", "/", "z", "i", "m">>

\* What the two directories can hold, in listing order.
TargetPool == <<TargetA, TargetALabel, TargetB, TargetC>>
AtlasPool == <<AtlasPlain, AtlasXA, AtlasXALabel, AtlasXB, AtlasYA, AtlasYB, AtlasInDirA>>

\* The files of pool at the positions in keep, in pool order.
RECURSIVE Listing(_, _)
Listing(pool, keep) ==
    IF pool = <<>> THEN <<>>
    ELSE (IF Len(pool) \in keep THEN Listing(SubSeq(pool, 1, Len(pool) - 1), keep) \o <<pool[Len(pool)]>>
          ELSE Listing(SubSeq(pool, 1, Len(pool) - 1), keep))

Listings(pool) == {Listing(pool, keep) : keep \in SUBSET DOMAIN pool}

\* (image_name_index_begin, image_name_index_end): the default, a prefix, the
\* same prefix counted from the end, and an empty slice.
IndexRanges == {<<0, -1>>, <<0, 2>>, <<-4, -2>>, <<2, 1>>}

InitNames ==
    /\ ImageIdle
    /\ LabelIdle
    /\ RoiIdle
    /\ ItemIdle
    /\ \E stage \in {"single", "multi"}, n \in 1..MaxNAtlas, r \in IndexRanges :
          self = [DefaultSelf EXCEPT !.stage = stage, !.n_atlas = n,
                                     !.image_suffix = ImageSuffix,
                                     !.image_name_index_begin = r[1],
                                     !.image_name_index_end = r[2]]
    /\ all_target_files \in Listings(TargetPool)
    /\ all_atlas_files \in Listings(AtlasPool)
    /\ target_atlas_image_names = <<>>
    /\ args = None
    /\ op = "ready"

CallFindDataNames ==
    /\ op = "ready"
    /\ LET res == FindDataNames(self, all_target_files, all_atlas_files, self.image_suffix)
       IN  /\ target_atlas_image_names' = res.value
           /\ op' = IF res.raised = None THEN "_find_data_names" ELSE res.raised
    /\ UNCHANGED <<self, all_target_files, all_atlas_files, args, labelVars, roiVars, itemVars, imageVars>>

NextNames == CallFindDataNames

SpecNames == InitNames /\ [][NextNames]_vars

Keys == target_atlas_image_names

\* __len__
DatasetLen == Len(target_atlas_image_names)

\* The names the suffix filter keeps, as sets.
DiscoveredTargets == {f \in Range(all_target_files) : Contains(self.image_suffix, f)}
DiscoveredAtlases == {f \in Range(all_atlas_files) : Contains(self.image_suffix, f)}

RECURSIVE Binomial(_, _)
Binomial(n, k) ==
    IF k = 0 THEN 1 ELSE IF n = 0 THEN 0 ELSE Binomial(n - 1, k - 1) + Binomial(n - 1, k)

\* Every key pairs a discovered target with n_atlas different atlases.
KeysWellFormed ==
    \A i \in DOMAIN Keys :
        /\ Keys[i][1] \in DiscoveredTargets
        /\ Len(Keys[i][2]) = self.n_atlas
        /\ Cardinality(Range(Keys[i][2])) = self.n_atlas
        /\ Range(Keys[i][2]) \subseteq DiscoveredAtlases

\* Target t occurs exactly once with each n_atlas-subset of pool, and with
\* nothing else.
PairedWithCombinationsOf(t, pool) ==
    /\ \A i \in DOMAIN Keys : Keys[i][1] = t => Range(Keys[i][2]) \subseteq pool
    /\ \A S \in SUBSET pool :
          Cardinality(S) = self.n_atlas =>
             Cardinality({i \in DOMAIN Keys : Keys[i][1] = t /\ Range(Keys[i][2]) = S}) = 1

\* C2: in single stage _find_data_names returns the Cartesian product of the
\* discovered targets with the n_atlas-combinations of the whole atlas pool:
\* T * C(A, n_atlas) keys, each (target, combination) exactly once, every
\* atlas tuple of length n_atlas without a repeated atlas.
C2_SingleStageProduct ==
    (op = "_find_data_names" /\ self.stage = "single") =>
        /\ DatasetLen = Cardinality(DiscoveredTargets)
                         * Binomial(Cardinality(DiscoveredAtlases), self.n_atlas)
        /\ KeysWellFormed
        /\ \A t \in DiscoveredTargets : PairedWithCombinationsOf(t, DiscoveredAtlases)

\* C2 witness: three targets and three atlases with n_atlas = 2 gave
\* 3 * C(3,2) = 9 keys.
C2_Witness ==
    /\ op = "_find_data_names"
    /\ self.stage = "single"
    /\ self.n_atlas = 2
    /\ Cardinality(DiscoveredTargets) = 3
    /\ Cardinality(DiscoveredAtlases) = 3
    /\ DatasetLen = 9

\* C3 as stated: in multi stage every key holds only atlases whose FILENAME
\* (the last path component) contains 'target-' + basename(target)[begin:end],
\* and each target's keys are exactly the n_atlas-combinations of the atlases
\* screened that way.
C3_MultiStageByFilename ==
    (op = "_find_data_names" /\ self.stage = "multi") =>
        /\ KeysWellFormed
        /\ \A t \in DiscoveredTargets :
              PairedWithCombinationsOf(t,
                  {a \in DiscoveredAtlases : Contains(TargetMarker(self, t), Basename(a))})

\* C3 amended: the same with the marker looked for in the atlas NAME as
\* discovered, directories included.
C3_MultiStageByName ==
    (op = "_find_data_names" /\ self.stage = "multi") =>
        /\ KeysWellFormed
        /\ \A t \in DiscoveredTargets :
              PairedWithCombinationsOf(t,
                  {a \in DiscoveredAtlases : Contains(TargetMarker(self, t), a)})

\* C3 witness: two targets with disjoint markers and four atlases split 2/2
\* (plus one atlas without a marker): each target is paired with its own two.
C3_Witness ==
    /\ op = "_find_data_names"
    /\ self.stage = "multi"
    /\ self.n_atlas = 2
    /\ all_target_files = <<TargetA, TargetB>>
    /\ all_atlas_files = <<AtlasPlain, AtlasXA, AtlasXB, AtlasYA, AtlasYB>>
    /\ Keys = << <<TargetA, <<AtlasXA, AtlasYA>> >>, <<TargetB, <<AtlasXB, AtlasYB>> >> >>

-----------------------------------------------------------------------------
(* get_roi_coordinates and _get_foreground_center.                         *)

\* foreground_flag: the voxels equal to one of label_intensity[1:].  Label
\* values are held in halves, so intensity k is the value 2k.
ForegroundFlag(slf, lab) ==
    {v \in DOMAIN lab.data :
        \E k \in 1..(Len(slf.label_intensity) - 1) :
            lab.data[v] = 2 * At(slf.label_intensity, k)}

\* np.min / np.max of the coordinates along one axis.
AxisMin(coords, a) == CHOOSE m \in {v[a] : v \in coords} : \A v \in coords : m <= v[a]
AxisMax(coords, a) == CHOOSE m \in {v[a] : v \in coords} : \A v \in coords : v[a] <= m

\* floor(low - (high - low) * mag_rate / 2), mag_rate = num/den.
SoftLowRaw(low, high, rate) ==
    (2 * rate.den * low - (high - low) * rate.num) \div (2 * rate.den)

\* floor(high + (high - low) * mag_rate / 2)
SoftHighRaw(low, high, rate) ==
    (2 * rate.den * high + (high - low) * rate.num) \div (2 * rate.den)

\* A slip: clipped to the axis length instead of the last index.
SoftHighToShape(low, high, rate, size) == Min(SoftHighRaw(low, high, rate), size)

SoftLow(low, high, rate) == Max(SoftLowRaw(low, high, rate), 0)

SoftHigh(low, high, rate, size) == Min(SoftHighRaw(low, high, rate), size - 1)

\* get_roi_coordinates: np.min of an empty arg_index raises ValueError.
GetRoiCoordinates(slf, lab, rate) ==
    LET arg_index == ForegroundFlag(slf, lab)
    IN  IF arg_index = {}
          THEN [raised |-> "ValueError", value |-> None]
        ELSE LET low == [a \in Axes |-> AxisMin(arg_index, a)]
                 high == [a \in Axes |-> AxisMax(arg_index, a)]
             IN  [raised |-> None,
                  value |-> << [a \in Axes |-> SoftLow(low[a], high[a], rate)],
                               [a \in Axes |-> SoftHigh(low[a], high[a], rate, lab.shape[a])] >>]

RECURSIVE SumAxis(_, _)
SumAxis(coords, a) ==
    IF coords = {} THEN 0
    ELSE LET v == CHOOSE w \in coords : TRUE IN v[a] + SumAxis(coords \ {v}, a)

\* What astype(np.int16) makes of NaN: not defined by the language; a build
\* produces one of these.
NaNAsInt16 == {-32768, 0, 32767}

\* _get_foreground_center: the values it can return.  The mean of no
\* coordinates is NaN (a warning, no exception), which is then cast.
GetForegroundCenter(slf, lab) ==
    LET coords == ForegroundFlag(slf, lab)
    IN  IF coords = {}
          THEN {[a \in Axes |-> c] : c \in NaNAsInt16}
        ELSE {[a \in Axes |-> SumAxis(coords, a) \div Cardinality(coords)]}

-----------------------------------------------------------------------------
(* The ROI computer on its own: every small label, a few rates.            *)

Shapes == (1..MaxDimX) \X (1..MaxDimY) \X (1..MaxDimZ)

RoiTable == <<0, 1, 2>>

\* The label whose foreground voxels are those of picks, of class 1 and 2 in
\* turn, a later pick overriding an earlier one.
LabelOf(shape, picks) ==
    [shape |-> shape,
     data |-> [v \in Voxels(shape) |->
                 LET at == {i \in DOMAIN picks : picks[i] = v}
                 IN  IF at = {} THEN 0
                     ELSE LET i == CHOOSE j \in at : \A k \in at : k <= j
                          IN  2 * At(RoiTable, 1 + ((i - 1) % 2))]]

\* The labels of a shape without foreground, with one foreground voxel and
\* with two: two voxels place the low and the high end of the foreground
\* on every axis, and the ROI depends on the foreground through these only.
LabelsOf(shape) ==
    {LabelOf(shape, <<>>)}
    \cup {LabelOf(shape, <<u>>) : u \in Voxels(shape)}
    \cup {LabelOf(shape, <<u, v>>) : u, v \in Voxels(shape)}

\* mag_rate: 0, the default 0.1, 2 and 4.
MagRates == {[num |-> 0, den |-> 1], [num |-> 1, den |-> 10],
             [num |-> 2, den |-> 1], [num |-> 4, den |-> 1]}

InitRoi ==
    /\ ImageIdle
    /\ LabelIdle
    /\ NamesIdle
    /\ ItemIdle
    /\ self = [DefaultSelf EXCEPT !.n_class = Len(RoiTable), !.label_intensity = RoiTable]
    /\ \E shape \in Shapes : fg_label \in LabelsOf(shape)
    /\ mag_rate \in MagRates
    /\ roi_ret = None
    /\ op = "ready"

CallGetRoiCoordinates ==
    /\ op = "ready"
    /\ LET res == GetRoiCoordinates(self, fg_label, mag_rate)
       IN  /\ roi_ret' = res.value
           /\ op' = IF res.raised = None THEN "get_roi_coordinates" ELSE res.raised
    /\ UNCHANGED <<self, fg_label, mag_rate, labelVars, namesVars, itemVars, imageVars>>

CallGetForegroundCenter ==
    /\ op = "ready"
    /\ roi_ret' \in GetForegroundCenter(self, fg_label)
    /\ op' = "_get_foreground_center"
    /\ UNCHANGED <<self, fg_label, mag_rate, labelVars, namesVars, itemVars, imageVars>>

NextRoi == CallGetRoiCoordinates \/ CallGetForegroundCenter

SpecRoi == InitRoi /\ [][NextRoi]_vars

\* The foreground of the label passed in, and its tight bounding box.
Foreground ==
    {v \in Voxels(fg_label.shape) :
        \E k \in 1..(self.n_class - 1) : fg_label.data[v] = 2 * At(self.label_intensity, k)}

IsLow(a, m) == (\E v \in Foreground : v[a] = m) /\ (\A v \in Foreground : m <= v[a])
IsHigh(a, m) == (\E v \in Foreground : v[a] = m) /\ (\A v \in Foreground : v[a] <= m)

\* x = max(floor(p / q), 0) and x = min(floor(p / q), top), for q > 0,
\* without a division.
IsFloorClippedBelow(x, p, q) ==
    /\ x >= 0
    /\ x > 0 => (q * x <= p /\ p < q * (x + 1))
    /\ x = 0 => p < q

IsFloorClippedAbove(x, p, q, top) ==
    /\ x <= top
    /\ x < top => (q * x <= p /\ p < q * (x + 1))
    /\ x = top => q * top <= p

\* C9: on a label with foreground and mag_rate >= 0, get_roi_coordinates
\* returns, per axis, soft_low = max(floor(low - (high-low)*mag_rate/2), 0)
\* and soft_high = min(floor(high + (high-low)*mag_rate/2), shape-1) for the
\* least and greatest foreground coordinates low and high; so
\* 0 <= soft_low <= low <= high <= soft_high <= shape-1, and with
\* mag_rate = 0 the ROI is the tight bounding box.
C9_RoiBounds ==
    op = "get_roi_coordinates" =>
        /\ Foreground # {}
        /\ \A a \in Axes : \E low, high \in 0..(fg_label.shape[a] - 1) :
              LET soft_low == roi_ret[1][a]
                  soft_high == roi_ret[2][a]
                  q == 2 * mag_rate.den
                  margin == (high - low) * mag_rate.num
              IN  /\ IsLow(a, low) /\ IsHigh(a, high)
                  /\ IsFloorClippedBelow(soft_low, q * low - margin, q)
                  /\ IsFloorClippedAbove(soft_high, q * high + margin, q, fg_label.shape[a] - 1)
                  /\ 0 <= soft_low /\ soft_low <= low /\ low <= high
                  /\ high <= soft_high /\ soft_high <= fg_label.shape[a] - 1
                  /\ mag_rate.num = 0 => (soft_low = low /\ soft_high = high)

\* C9 witness: with the default rate 0.1 the margin moved the lower bound of
\* the first axis below a foreground that starts at 1, while a single
\* voxel on another label is its own ROI (checked by the formula at rate 0).
C9_Witness ==
    /\ op = "get_roi_coordinates"
    /\ mag_rate = [num |-> 1, den |-> 10]
    /\ IsLow(1, 1)
    /\ IsHigh(1, 2)
    /\ roi_ret[1][1] = 0
    /\ roi_ret[2][1] = 2

\* C10: on a label without any foreground voxel neither get_roi_coordinates
\* nor _get_foreground_center returns a coordinate: both raise.
C10_EmptyForegroundRaises ==
    Foreground = {} => op \notin {"get_roi_coordinates", "_get_foreground_center"}

-----------------------------------------------------------------------------
(* Image intensities.  A finite intensity is the real number               *)
(* s * sqrt(p / q), held as [s, p, q] with s in {-1, 0, 1} and p/q in      *)
(* lowest terms, which is closed under what _process_image computes        *)
(* (percentile interpolation, z-score, min-max); NaN is numpy's nan, 0/0.   *)

NaN == [s |-> 0, p |-> 0, q |-> 0]

RECURSIVE Gcd(_, _)
Gcd(a, b) == IF b = 0 THEN a ELSE Gcd(b, a % b)

Abs(x) == IF x < 0 THEN -x ELSE x

Sign(x) == IF x < 0 THEN -1 ELSE IF x = 0 THEN 0 ELSE 1

\* sign * sqrt(p / q), for p >= 0 and q > 0.
Root(sign, p, q) ==
    IF p = 0 \/ sign = 0 THEN [s |-> 0, p |-> 0, q |-> 1]
    ELSE LET g == Gcd(p, q) IN [s |-> sign, p |-> p \div g, q |-> q \div g]

\* The quotient num / den of two integers; 0/0 and x/0 as numpy gives them
\* inside these computations (0/0 is nan; a nonzero x/0 does not arise).
Quotient(num, den) ==
    IF den = 0 THEN NaN ELSE Root(Sign(num) * Sign(den), num * num, den * den)

\* The values of an array in ascending order.
RECURSIVE SortedValues(_, _)
SortedValues(data, todo) ==
    IF todo = {} THEN <<>>
    ELSE LET v == CHOOSE w \in todo : \A u \in todo : data[w] <= data[u]
         IN  <<data[v]>> \o SortedValues(data, todo \ {v})

\* np.percentile(data, 99), times 100: linear interpolation between the two
\* order statistics around rank 0.99 * (n - 1).
Percentile99Times100(data) ==
    LET d == SortedValues(data, DOMAIN data)
        n == Len(d)
        k == (99 * (n - 1)) \div 100
        f == (99 * (n - 1)) % 100
    IN  IF f = 0 THEN 100 * d[k + 1]
        ELSE 100 * d[k + 1] + f * (d[k + 2] - d[k + 1])

\* np.clip(data, -np.inf, np.percentile(data, 99)), in hundredths.
ClipMr(data) ==
    LET top == Percentile99Times100(data)
    IN  [v \in DOMAIN data |-> Min(100 * data[v], top)]

\* np.clip(data, self.a_min, self.a_max), in hundredths; None and the
\* infinities bound nothing.
ClipCt(slf, data) ==
    [v \in DOMAIN data |->
        LET lo == IF slf.a_min.kind = "num" THEN Max(data[v], slf.a_min.v) ELSE data[v]
            hi == IF slf.a_max.kind = "num" THEN Min(lo, slf.a_max.v) ELSE lo
        IN  100 * hi]

RECURSIVE SumOver(_, _)
SumOver(f, todo) ==
    IF todo = {} THEN 0
    ELSE LET v == CHOOSE w \in todo : TRUE IN f[v] + SumOver(f, todo \ {v})

\* The greatest common divisor of the values of f (0 when all are 0).
RECURSIVE GcdOver(_, _)
GcdOver(f, todo) ==
    IF todo = {} THEN 0
    ELSE LET v == CHOOSE w \in todo : TRUE IN Gcd(Abs(f[v]), GcdOver(f, todo \ {v}))

\* stats.zscore(x, axis=None, ddof=1): (x - mean) / std.  With n values of
\* sum S, x - mean = (n x - S) / n and std^2 = sum (n x - S)^2 / (n^2 (n - 1)),
\* so z^2 = (n x - S)^2 (n - 1) / sum (n x - S)^2; a common factor of the
\* n x - S cancels.  One value, or equal values, give 0/0.
ZScore(x) ==
    LET n == Cardinality(DOMAIN x)
        S == SumOver(x, DOMAIN x)
        g == GcdOver([v \in DOMAIN x |-> n * x[v] - S], DOMAIN x)
        dev == [v \in DOMAIN x |-> IF g = 0 THEN 0 ELSE (n * x[v] - S) \div g]
        SS == SumOver([v \in DOMAIN x |-> dev[v] * dev[v]], DOMAIN x)
    IN  [v \in DOMAIN x |->
            IF n = 1 \/ SS = 0 THEN NaN
            ELSE Root(Sign(dev[v]), dev[v] * dev[v] * (n - 1), SS)]

\* data_norm = x - min(x); data_norm / max(data_norm)
MinMax(x) ==
    LET lo == CHOOSE m \in Range(x) : \A v \in DOMAIN x : m <= x[v]
        hi == CHOOSE m \in Range(x) : \A v \in DOMAIN x : x[v] <= m
    IN  [v \in DOMAIN x |-> Quotient(x[v] - lo, hi - lo)]

\* kwargs.pop(key, default): the value and the dict left.
Pop(dict, key, default) ==
    IF key \in DOMAIN dict
      THEN [value |-> dict[key], dict |-> [k \in DOMAIN dict \ {key} |-> dict[k]]]
    ELSE [value |-> default, dict |-> dict]

\* np.tile(np.expand_dims(x, -1), (1, 1, 1, channels)): the channel axis.
Tile(slf, x) == [v \in DOMAIN x |-> [c \in 1..slf.channels |-> x[v]]]

\* _process_image without augmentation: what it raises or returns
\* ([1, nx, ny, nz, channels]), and kwargs as it leaves it.
ProcessImage(slf, img, modality, normalization) ==
    LET data_clip == IF modality = "mr" THEN ClipMr(img.data) ELSE ClipCt(slf, img.data)
        popped == Pop(slf.kwargs, "normalization_method", "z-score")
        method == popped.value
        plain == [v \in DOMAIN data_clip |-> Quotient(data_clip[v], 100)]
    IN  IF ~normalization
          THEN [raised |-> None, kwargs |-> slf.kwargs,
                value |-> << [shape |-> img.shape, data |-> Tile(slf, plain)] >>]
        ELSE IF method = "z-score"
          THEN [raised |-> None, kwargs |-> popped.dict,
                value |-> << [shape |-> img.shape, data |-> Tile(slf, ZScore(data_clip))] >>]
        ELSE IF method = "min-max"
          THEN [raised |-> None, kwargs |-> popped.dict,
                value |-> << [shape |-> img.shape, data |-> Tile(slf, MinMax(data_clip))] >>]
        ELSE [raised |-> "ValueError", kwargs |-> popped.dict, value |-> None]

-----------------------------------------------------------------------------
(* __getitem__: loading.  The model holds scale = 0 (no rescaling), no     *)
(* weight files (weight_suffix = None), num_blocks = (1, 1, 1) and         *)
(* image_augmentation = False.                                             *)

\* str.replace(old, new), for a non-empty old.
RECURSIVE Replace(_, _, _)
Replace(str, old, new) ==
    IF Len(old) = 0 \/ Len(str) < Len(old) THEN str
    ELSE IF SubSeq(str, 1, Len(old)) = old
      THEN new \o Replace(SubSeq(str, Len(old) + 1, Len(str)), old, new)
    ELSE <<Head(str)>> \o Replace(Tail(str), old, new)

\* name.replace(self.image_suffix, self.label_suffix)
LabelName(slf, name) == Replace(name, slf.image_suffix, slf.label_suffix)

\* Lines 117-125: the target and atlas volumes of a key, the atlases stacked
\* along a last axis (here: a sequence of volumes of one shape).  A missing
\* file and atlases of different shapes raise.
LoadSample(slf, dsk, key) ==
    LET target_image_name == key[1]
        atlas_image_names == key[2]
        paths == {target_image_name, LabelName(slf, target_image_name)}
                 \cup Range(atlas_image_names)
                 \cup {LabelName(slf, name) : name \in Range(atlas_image_names)}
        nowhere == [raised |-> None, target_image |-> None, target_label |-> None,
                    target_affine |-> None, target_header |-> None,
                    atlases_image |-> None, atlases_label |-> None]
    IN  IF \E path \in paths : path \notin DOMAIN dsk
          THEN [nowhere EXCEPT !.raised = "FileNotFoundError"]
        ELSE IF \/ atlas_image_names = <<>>
                \/ \E m, n \in Range(atlas_image_names) :
                      \/ dsk[m].shape # dsk[n].shape
                      \/ dsk[LabelName(slf, m)].shape # dsk[LabelName(slf, n)].shape
          THEN [nowhere EXCEPT !.raised = "ValueError"]
        ELSE [raised |-> None,
              target_image |-> dsk[target_image_name],
              target_label |-> dsk[LabelName(slf, target_image_name)],
              target_affine |-> <<"affine", target_image_name>>,
              target_header |-> <<"header", target_image_name>>,
              atlases_image |-> [i \in DOMAIN atlas_image_names |-> dsk[atlas_image_names[i]]],
              atlases_label |-> [i \in DOMAIN atlas_image_names |->
                                    dsk[LabelName(slf, atlas_image_names[i])]]]

-----------------------------------------------------------------------------
(* __getitem__: cropping.                                                  *)

\* The part start:stop of an axis of length n selects, as numpy slices:
\* negative indices count from the end, both ends are clipped.
SliceRange(n, start, stop) ==
    LET lo == IF start < 0 THEN Max(start + n, 0) ELSE Min(start, n)
        hi == IF stop < 0 THEN Max(stop + n, 0) ELSE Min(stop, n)
    IN  <<lo, Max(lo, hi)>>

\* vol[begin[0]:end[0], begin[1]:end[1], begin[2]:end[2]]
Crop(vol, begin, end) ==
    LET r == [a \in Axes |-> SliceRange(vol.shape[a], begin[a], end[a])]
        shape == [a \in Axes |-> r[a][2] - r[a][1]]
    IN  [shape |-> shape,
         data |-> [v \in Voxels(shape) |->
                     vol.data[<<v[1] + r[1][1], v[2] + r[2][1], v[3] + r[3][1]>>]]]

\* A slip: the first axis only.
FitsInFirstAxis(patch_size, shape) == patch_size[1] <= shape[1]

\* np.all(self.patch_size <= shape)
FitsIn(patch_size, shape) == \A a \in Axes : patch_size[a] <= shape[a]

\* Which branch of lines 169-190 chooses the patch center.
PatchPolicy(slf) ==
    IF slf.patch_center # NoCenter THEN "explicit"
    ELSE IF slf.random_crop /\ ~slf.crop_roi THEN "random"
    ELSE IF slf.random_crop /\ slf.crop_roi THEN "random_foreground"
    ELSE IF ~slf.random_crop /\ slf.crop_roi THEN "foreground"
    ELSE "default"

\* What stops every branch but the last.  The first four assign the local
\* patch_center, while lines 193-199 read target_patch_center and
\* atlas_patch_center, which only the last branch assigns: UnboundLocalError.
\* The random foreground branch stops before that, at max(scalar,
\* self.patch_size // 2), whose comparison with a 3-element array has no
\* truth value: ValueError.
PolicyRaises(policy) ==
    CASE policy = "explicit" -> "UnboundLocalError"
      [] policy = "random" -> "UnboundLocalError"
      [] policy = "random_foreground" -> "ValueError"
      [] policy = "foreground" -> "UnboundLocalError"
      [] policy = "default" -> None

\* A slip: the center rounded up.
CenterRoundedUp(shape) == [a \in Axes |-> (shape[a] + 1) \div 2]

\* np.asarray(shape, dtype=np.int16) // 2
GeometricCenter(shape) == [a \in Axes |-> shape[a] \div 2]

\* A slip: half the patch size rounded up.
PatchBeginRoundedUp(center, patch_size) ==
    [a \in Axes |-> center[a] - (patch_size[a] + 1) \div 2]

\* patch_center - self.patch_size // 2
PatchBegin(center, patch_size) == [a \in Axes |-> center[a] - patch_size[a] \div 2]

\* patch_center - self.patch_size // 2 + self.patch_size
PatchEnd(center, patch_size) ==
    [a \in Axes |-> center[a] - patch_size[a] \div 2 + patch_size[a]]

\* center / np.asarray(shape)
CenterPercent(center, shape) == [a \in Axes |-> Quotient(center[a], shape[a])]

NotCropped ==
    [raised |-> None, target_image |-> None, target_label |-> None,
     atlases_image |-> None, atlases_label |-> None, center_percent |-> None,
     target_begin |-> None, target_end |-> None, atlas_begin |-> None, atlas_end |-> None]

\* Lines 164-213, the slicing of the atlases included.
PatchCrop(slf, ld) ==
    LET size == slf.patch_size
        atlas_shape == ld.atlases_label[1].shape
    IN  IF ~FitsIn(size, ld.target_label.shape) \/ ~FitsIn(size, atlas_shape)
          THEN [NotCropped EXCEPT !.raised = "AssertionError"]
        ELSE IF PolicyRaises(PatchPolicy(slf)) # None
          THEN [NotCropped EXCEPT !.raised = PolicyRaises(PatchPolicy(slf))]
        ELSE LET target_patch_center == GeometricCenter(ld.target_image.shape)
                 atlas_patch_center == GeometricCenter(ld.atlases_image[1].shape)
                 target_begin == PatchBegin(target_patch_center, size)
                 target_end == PatchEnd(target_patch_center, size)
                 atlas_begin == PatchBegin(atlas_patch_center, size)
                 atlas_end == PatchEnd(atlas_patch_center, size)
             IN  [raised |-> None,
                  target_image |-> Crop(ld.target_image, target_begin, target_end),
                  target_label |-> Crop(ld.target_label, target_begin, target_end),
                  atlases_image |-> [i \in DOMAIN ld.atlases_image |->
                                        Crop(ld.atlases_image[i], atlas_begin, atlas_end)],
                  atlases_label |-> [i \in DOMAIN ld.atlases_label |->
                                        Crop(ld.atlases_label[i], atlas_begin, atlas_end)],
                  center_percent |-> CenterPercent(target_patch_center, ld.target_label.shape),
                  target_begin |-> target_begin, target_end |-> target_end,
                  atlas_begin |-> atlas_begin, atlas_end |-> atlas_end]

\* Lines 133-140.  get_roi_coordinates raises on an empty foreground; what
\* it returns otherwise are float64 arrays (np.floor of a float expression),
\* and an ndarray sliced with float64 bounds raises TypeError (numpy 1.12
\* and later).
RoiCrop(slf, ld) ==
    LET roi == GetRoiCoordinates(slf, ld.target_label, [num |-> 1, den |-> 10])
    IN  IF roi.raised # None THEN [NotCropped EXCEPT !.raised = roi.raised]
        ELSE [NotCropped EXCEPT !.raised = "TypeError"]

\* Lines 229-234: nothing is cropped.
NoCrop(ld) ==
    [NotCropped EXCEPT !.target_image = ld.target_image,
                       !.target_label = ld.target_label,
                       !.atlases_image = ld.atlases_image,
                       !.atlases_label = ld.atlases_label,
                       !.center_percent = [a \in Axes |-> Quotient(1, 2)]]

\* The crop mode of lines 133, 164 and 229.
CropMode(slf) ==
    IF slf.crop_roi /\ ~slf.crop_patch THEN "roi"
    ELSE IF slf.crop_patch THEN "patch"
    ELSE "none"

Cropped(slf, ld) ==
    CASE CropMode(slf) = "roi" -> RoiCrop(slf, ld)
      [] CropMode(slf) = "patch" -> PatchCrop(slf, ld)
      [] CropMode(slf) = "none" -> NoCrop(ld)

-----------------------------------------------------------------------------
(* __getitem__: the Sample, and collate_fn.                                *)

\* np.stack(arrays, axis=-2) of arrays [1, nx, ny, nz, c]: the atlas axis
\* goes before the last one.
StackAtlases(arrays) ==
    << [shape |-> arrays[1][1].shape,
        data |-> [v \in DOMAIN arrays[1][1].data |->
                     [i \in DOMAIN arrays |-> arrays[i][1].data[v]]]] >>

\* Ones in place of the entries of a nested sequence, axes deep.
RECURSIVE Ones(_, _)
Ones(x, axes) == IF axes = 0 THEN 1 ELSE [i \in DOMAIN x |-> Ones(x[i], axes - 1)]

\* np.ones_like of an array whose voxels hold axes further axes.
OnesLike(array, axes) ==
    << [shape |-> array[1].shape,
        data |-> [v \in DOMAIN array[1].data |-> Ones(array[1].data[v], axes)]] >>

\* utils.crop_into_blocks with n_blocks = (1, 1, 1): the identity.
CropIntoBlocks(x) == x

\* Lines 245-268.
MakeSample(l) ==
    LET target_image == CropIntoBlocks(l.target_image)
        target_label == CropIntoBlocks(l.target_label)
        atlases_image == CropIntoBlocks(StackAtlases(l.processed_images))
        atlases_label == CropIntoBlocks(StackAtlases(l.processed_labels))
    IN  [target_image |-> target_image,
         target_label |-> target_label,
         target_weight |-> OnesLike(target_label, 1),
         target_affine |-> l.target_affine,
         target_header |-> l.target_header,
         atlases_image |-> atlases_image,
         atlases_label |-> atlases_label,
         atlases_weight |-> OnesLike(atlases_label, 2),
         center_percent |-> l.center_percent]

\* np.concatenate(arrays, axis=0)
RECURSIVE Concatenate(_)
Concatenate(arrays) ==
    IF arrays = <<>> THEN <<>> ELSE Head(arrays) \o Concatenate(Tail(arrays))

\* np.concatenate raises unless the arrays agree beyond the first axis.
SameInnerShape(arrays) ==
    \A i, j \in DOMAIN arrays :
        \A m \in DOMAIN arrays[i], n \in DOMAIN arrays[j] :
            arrays[i][m].shape = arrays[j][n].shape

\* The fields of a Sample with a leading sample axis; center_percent, the
\* other array, has one axis only.
TensorFields ==
    {"target_image", "target_label", "target_weight",
     "atlases_image", "atlases_label", "atlases_weight"}

\* collate_fn
CollateFn(res_list) ==
    IF \E f \in TensorFields : ~SameInnerShape([i \in DOMAIN res_list |-> res_list[i][f]])
      THEN [raised |-> "ValueError", value |-> None]
    ELSE [raised |-> None,
          value |->
            [target_image |-> Concatenate([i \in DOMAIN res_list |-> res_list[i].target_image]),
             target_label |-> Concatenate([i \in DOMAIN res_list |-> res_list[i].target_label]),
             target_weight |-> Concatenate([i \in DOMAIN res_list |-> res_list[i].target_weight]),
             target_affine |-> [i \in DOMAIN res_list |-> res_list[i].target_affine],
             target_header |-> [i \in DOMAIN res_list |-> res_list[i].target_header],
             atlases_image |-> Concatenate([i \in DOMAIN res_list |-> res_list[i].atlases_image]),
             atlases_label |-> Concatenate([i \in DOMAIN res_list |-> res_list[i].atlases_label]),
             atlases_weight |-> Concatenate([i \in DOMAIN res_list |-> res_list[i].atlases_weight]),
             center_percent |-> Concatenate([i \in DOMAIN res_list |-> res_list[i].center_percent])]]

-----------------------------------------------------------------------------
(* A loader over the provider: batch_indices are the dataset indices of    *)
(* one batch, handed out in order to workers that share the provider; a    *)
(* worker runs __getitem__ for its position and the results are collated.  *)
(* __getitem__ is cut where it reads or writes the provider.               *)

Workers == 1..num_workers

Positions == DOMAIN batch_indices


\* Lines 117-199 for the next position: load, then crop.
Start(w) ==
    /\ pc[w] = "idle"
    /\ pos \in Positions
    /\ pos' = pos + 1
    /\ LET index == batch_indices[pos]
           ld == LoadSample(self, disk, At(target_atlas_image_names, index))
           cr == IF ld.raised = None THEN Cropped(self, ld) ELSE NotCropped
           raised == IF ld.raised # None THEN ld.raised ELSE cr.raised
       IN  IF raised # None
             THEN /\ fetched' = [fetched EXCEPT ![pos] = Failed(raised)]
                  /\ UNCHANGED <<pc, loc>>
           ELSE /\ loc' = [loc EXCEPT ![w] =
                             [position |-> pos,
                              target_shape |-> ld.target_label.shape,
                              atlas_shape |-> ld.atlases_label[1].shape,
                              target_begin |-> cr.target_begin,
                              target_end |-> cr.target_end,
                              atlas_begin |-> cr.atlas_begin,
                              atlas_end |-> cr.atlas_end,
                              target_image |-> cr.target_image,
                              target_label |-> cr.target_label,
                              target_affine |-> ld.target_affine,
                              target_header |-> ld.target_header,
                              atlases_image |-> cr.atlases_image,
                              atlases_label |-> cr.atlases_label,
                              processed_images |-> <<>>,
                              processed_labels |-> <<>>,
                              center_percent |-> cr.center_percent]]
                /\ pc' = [pc EXCEPT ![w] = "target"]
                /\ UNCHANGED fetched
    /\ op' = "__getitem__"
    /\ UNCHANGED <<self, constructed, disk, num_workers, batch_indices, batch,
                   labelVars, namesVars, roiVars, imageVars>>

\* self._process_image(target_image, ...) and self._process_label(target_label)
ProcessTarget(w) ==
    /\ pc[w] = "target"
    /\ LET res == ProcessImage(self, loc[w].target_image, self.target_modality, TRUE)
       IN  /\ self' = [self EXCEPT !.kwargs = res.kwargs]
           /\ IF res.raised # None
                THEN /\ fetched' = [fetched EXCEPT ![loc[w].position] = Failed(res.raised)]
                     /\ loc' = [loc EXCEPT ![w] = None]
                     /\ pc' = [pc EXCEPT ![w] = "idle"]
              ELSE /\ loc' = [loc EXCEPT ![w].target_image = res.value,
                                         ![w].target_label = ProcessLabel(self, loc[w].target_label)]
                   /\ pc' = [pc EXCEPT ![w] = "atlas"]
                   /\ UNCHANGED fetched
    /\ op' = "_process_image"
    /\ UNCHANGED <<constructed, disk, num_workers, batch_indices, pos, batch,
                   labelVars, namesVars, roiVars, imageVars>>

\* The next atlas of the two comprehensions over range(self.n_atlas): its
\* label encoded (which touches nothing shared, so that its place among the
\* steps is immaterial) and its image processed.
ProcessAtlas(w) ==
    /\ pc[w] = "atlas"
    /\ LET i == Len(loc[w].processed_images) + 1
           res == ProcessImage(self, loc[w].atlases_image[i], self.atlas_modality,
                               self.image_normalization)
       IN  /\ self' = [self EXCEPT !.kwargs = res.kwargs]
           /\ IF res.raised # None
                THEN /\ fetched' = [fetched EXCEPT ![loc[w].position] = Failed(res.raised)]
                     /\ loc' = [loc EXCEPT ![w] = None]
                     /\ pc' = [pc EXCEPT ![w] = "idle"]
              ELSE /\ loc' = [loc EXCEPT
                                ![w].processed_images = Append(@, res.value),
                                ![w].processed_labels =
                                    Append(@, ProcessLabel(self, loc[w].atlases_label[i]))]
                   /\ pc' = [pc EXCEPT ![w] = IF i = self.n_atlas THEN "return" ELSE "atlas"]
                   /\ UNCHANGED fetched
    /\ op' = "_process_image"
    /\ UNCHANGED <<constructed, disk, num_workers, batch_indices, pos, batch,
                   labelVars, namesVars, roiVars, imageVars>>

\* Lines 245-268: the Sample goes to its position of the batch.
Return(w) ==
    /\ pc[w] = "return"
    /\ fetched' = [fetched EXCEPT ![loc[w].position] = Fetched(MakeSample(loc[w]))]
    /\ loc' = [loc EXCEPT ![w] = None]
    /\ pc' = [pc EXCEPT ![w] = "idle"]
    /\ op' = "return"
    /\ UNCHANGED <<self, constructed, disk, num_workers, batch_indices, pos, batch,
                   labelVars, namesVars, roiVars, imageVars>>

\* collate_fn over the Samples of the batch, once every one is there.
Collate ==
    /\ ~batch.done
    /\ Positions # {}
    /\ \A p \in Positions : fetched[p].done /\ fetched[p].raised = None
    /\ LET res == CollateFn([p \in Positions |-> fetched[p].sample])
       IN  batch' = [done |-> TRUE, raised |-> res.raised, value |-> res.value]
    /\ op' = "collate_fn"
    /\ UNCHANGED <<self, constructed, disk, num_workers, batch_indices, pos, pc, loc,
                   fetched, labelVars, namesVars, roiVars, imageVars>>

NextItem ==
    \/ \E w \in Workers : Start(w)
    \/ \E w \in Workers : ProcessTarget(w)
    \/ \E w \in Workers : ProcessAtlas(w)
    \/ \E w \in Workers : Return(w)
    \/ Collate

-----------------------------------------------------------------------------
(* The files of the item specifications: two subjects, each an image and   *)
(* its label, named by the two-letter suffixes of the listings above.      *)

MaxWorkers == 2
MaxBatch == 2

LabelSuffix == <<"l", "b">>

TargetBLabel == <<"d", "/", "b", "2", "l", "b">>

ItemSelf == [DefaultSelf EXCEPT !.image_suffix = ImageSuffix, !.label_suffix = LabelSuffix]

\* Shapes with a single slice.
ItemShapes == {<<x, y, 1>> : x \in 1..MaxDimX, y \in 1..MaxDimY}

\* An image whose intensities 0..3 vary along every axis.
ImageOf(shape, seed) ==
    [shape |-> shape,
     data |-> [v \in Voxels(shape) |-> (seed + v[1] + 2 * v[2] + v[3]) % 4]]

\* A label (in halves) whose foreground, of the first class, is fg.
ItemLabelOf(slf, shape, fg) ==
    [shape |-> shape,
     data |-> [v \in Voxels(shape) |->
                 IF v \in fg THEN 2 * At(slf.label_intensity, 1) ELSE 0]]

Corner == <<0, 0, 0>>

DiskOf(slf, target_shape, atlas_shape, fg) ==
    [path \in {TargetA, TargetALabel, TargetB, TargetBLabel} |->
        CASE path = TargetA -> ImageOf(target_shape, 0)
          [] path = TargetALabel -> ItemLabelOf(slf, target_shape, fg)
          [] path = TargetB -> ImageOf(atlas_shape, 1)
          [] path = TargetBLabel -> ItemLabelOf(slf, atlas_shape, {Corner})]

\* __init__, lines 109-113, then a loader with its batch of indices.
Constructed(slf, target_files, atlas_files, dsk, workers, indices) ==
    /\ self = slf
    /\ constructed = slf
    /\ all_target_files = target_files
    /\ all_atlas_files = atlas_files
    /\ target_atlas_image_names =
           FindDataNames(slf, target_files, atlas_files, slf.image_suffix).value
    /\ args = None
    /\ disk = dsk
    /\ num_workers = workers
    /\ batch_indices = indices
    /\ pos = 1
    /\ pc = [w \in 1..workers |-> "idle"]
    /\ loc = [w \in 1..workers |-> None]
    /\ fetched = [p \in DOMAIN indices |-> Pending]
    /\ batch = NotCollated
    /\ op = "ready"

\* One __getitem__(0) of a provider with one target and one atlas, over
\* every crop configuration, patch size and pair of volume shapes.
Init ==
    /\ ImageIdle
    /\ LabelIdle
    /\ RoiIdle
    /\ \E crop_patch, crop_roi, random_crop \in BOOLEAN :
       \E size, target_shape, atlas_shape \in ItemShapes :
       \E explicit \in BOOLEAN, fg \in {{}, {Corner}} :
          LET center == IF explicit THEN GeometricCenter(target_shape) ELSE NoCenter
              slf == [ItemSelf EXCEPT !.crop_patch = crop_patch,
                                      !.crop_roi = crop_roi,
                                      !.random_crop = random_crop,
                                      !.patch_size = size,
                                      !.patch_center = center]
          IN  Constructed(slf, <<TargetA, TargetALabel>>, <<TargetB, TargetBLabel>>,
                          DiskOf(slf, target_shape, atlas_shape, fg), 1, <<0>>)

Next == NextItem

Spec == Init /\ [][Next]_vars

\* The size of the volumes of the loader specification.
LoaderShape == <<2, 1, 1>>

NormalizationMethods == {None, "z-score", "min-max", "l2"}

\* kwargs as __init__ leaves it: the normalization_method entry, if given.
KwargsOf(method) ==
    IF method = None THEN EmptyDict
    ELSE [key \in {"normalization_method"} |-> method]

\* A batch of up to MaxBatch indices fetched by up to MaxWorkers workers,
\* nothing cropped, over every normalization setting.
InitLoader ==
    /\ ImageIdle
    /\ LabelIdle
    /\ RoiIdle
    /\ \E n_atlas \in 1..MaxNAtlas, method \in NormalizationMethods,
          image_normalization \in BOOLEAN, workers \in 1..MaxWorkers :
          LET slf == [ItemSelf EXCEPT !.n_atlas = n_atlas,
                                      !.image_normalization = image_normalization,
                                      !.kwargs = KwargsOf(method)]
              target_files == <<TargetA, TargetALabel>>
              atlas_files == <<TargetA, TargetALabel, TargetB, TargetBLabel>>
              names == FindDataNames(slf, target_files, atlas_files, slf.image_suffix)
          IN  /\ names.raised = None
              /\ \E n \in 1..MaxBatch : \E indices \in [1..n -> 0..(Len(names.value) - 1)] :
                    Constructed(slf, target_files, atlas_files,
                                DiskOf(slf, LoaderShape, LoaderShape, {Corner}),
                                workers, indices)

NextLoader == NextItem

SpecLoader == InitLoader /\ [][NextLoader]_vars

-----------------------------------------------------------------------------
(* Properties of __getitem__ and collate_fn.                               *)

InVolume(begin, end, shape) == \A a \in Axes : 0 <= begin[a] /\ end[a] <= shape[a]

PatchMode == CropMode(self) = "patch"

\* The shapes of the target label and of the atlas labels of position p.
TargetShapeAt(p) ==
    disk[LabelName(self, At(target_atlas_image_names, batch_indices[p])[1])].shape

AtlasShapeAt(p) ==
    disk[LabelName(self, At(target_atlas_image_names, batch_indices[p])[2][1])].shape

PatchFitsAt(p) ==
    FitsIn(self.patch_size, TargetShapeAt(p)) /\ FitsIn(self.patch_size, AtlasShapeAt(p))

\* C4: in patch-crop mode, whatever the crop-center policy, the slicing
\* bounds __getitem__ computes lie in the volume on every axis, for the
\* target and for the atlases (0 <= begin and end <= shape), so that what is
\* cut has the patch size; and a patch that does not fit its volumes makes
\* the call fail.
C4_PatchBoundsInVolume ==
    /\ \A w \in Workers :
          (PatchMode /\ pc[w] # "idle") =>
              /\ InVolume(loc[w].target_begin, loc[w].target_end, loc[w].target_shape)
              /\ InVolume(loc[w].atlas_begin, loc[w].atlas_end, loc[w].atlas_shape)
              /\ \A i \in DOMAIN loc[w].atlases_image :
                    /\ loc[w].atlases_image[i].shape = self.patch_size
                    /\ loc[w].atlases_label[i].shape = self.patch_size
              /\ pc[w] = "target" =>
                    /\ loc[w].target_image.shape = self.patch_size
                    /\ loc[w].target_label.shape = self.patch_size
    /\ \A p \in Positions :
          (PatchMode /\ fetched[p].done /\ ~PatchFitsAt(p)) => fetched[p].raised # None

\* A patch smaller than its volumes has been cut out of the target and the
\* atlas, away from the low edge of the target.
C4_Witness ==
    \E w \in Workers :
        /\ PatchMode
        /\ pc[w] = "target"
        /\ self.patch_size # loc[w].target_shape
        /\ self.patch_size # loc[w].atlas_shape
        /\ loc[w].target_begin[1] > 0

\* C5: in patch-crop mode with a patch_center given, a patch that fits and
\* lies in both volumes around that center is what __getitem__ returns: the
\* call completes, and target and atlases are cut from
\* patch_center - patch_size // 2 to that plus patch_size.
C5_ExplicitCenterUsed ==
    \A p \in Positions :
        LET size == self.patch_size
            begin == PatchBegin(self.patch_center, size)
            end == PatchEnd(self.patch_center, size)
            key == At(target_atlas_image_names, batch_indices[p])
        IN  ( /\ PatchMode
              /\ self.patch_center # NoCenter
              /\ fetched[p].done
              /\ PatchFitsAt(p)
              /\ InVolume(begin, end, TargetShapeAt(p))
              /\ InVolume(begin, end, AtlasShapeAt(p)) ) =>
                /\ fetched[p].raised = None
                /\ fetched[p].sample.target_label =
                       ProcessLabel(self, Crop(disk[LabelName(self, key[1])], begin, end))
                /\ fetched[p].sample.atlases_label =
                       StackAtlases([i \in DOMAIN key[2] |->
                           ProcessLabel(self, Crop(disk[LabelName(self, key[2][i])], begin, end))])

\* C6: the provider is, at every moment, as it was constructed: no call
\* changes a configuration value, the kwargs entries included.
C6_ConfigurationReadOnly == self = constructed

\* Every entry of a processed image [1, nx, ny, nz, channels] lies in 0..1,
\* and both ends are taken.
MinMaxNormalized(image) ==
    LET values == {image[1].data[v][c] : v \in DOMAIN image[1].data, c \in 1..self.channels}
    IN  /\ Quotient(0, 1) \in values
        /\ Quotient(1, 1) \in values
        /\ \A x \in values : x # NaN /\ x.s >= 0 /\ x.p <= x.q

\* C7: without random_crop and augmentation, what __getitem__(i) gives
\* depends on i and the constructed configuration only: two positions of the
\* same index end alike, whatever ran before or in between; and with
\* normalization_method = "min-max" every normalized image of every Sample
\* is min-max normalized.
C7_SampleDependsOnIndexOnly ==
    /\ \A p, q \in Positions :
          (fetched[p].done /\ fetched[q].done /\ batch_indices[p] = batch_indices[q]) =>
              /\ fetched[p].raised = fetched[q].raised
              /\ fetched[p].raised = None => fetched[p].sample = fetched[q].sample
    /\ \A p \in Positions :
          ( /\ fetched[p].done
            /\ fetched[p].raised = None
            /\ "normalization_method" \in DOMAIN constructed.kwargs
            /\ constructed.kwargs["normalization_method"] = "min-max" ) =>
                /\ MinMaxNormalized(fetched[p].sample.target_image)
                /\ constructed.image_normalization =>
                      \A i \in 1..self.n_atlas :
                          MinMaxNormalized(
                              << [shape |-> fetched[p].sample.atlases_image[1].shape,
                                  data |-> [v \in DOMAIN fetched[p].sample.atlases_image[1].data |->
                                              fetched[p].sample.atlases_image[1].data[v][i]]] >>)

\* C8: the batch collate_fn makes of N Samples has, in every tensor field
\* and in center_percent, a leading axis of size N whose entry j is that of
\* Sample j, and target_affine and target_header are the N of the Samples in
\* order.
C8_CollatedLeadingAxis ==
    (batch.done /\ batch.raised = None) =>
        LET N == Len(batch_indices) IN
        /\ \A f \in TensorFields :
              /\ Len(batch.value[f]) = N
              /\ \A j \in 1..N : batch.value[f][j] = fetched[j].sample[f][1]
        /\ Len(batch.value.target_affine) = N
        /\ Len(batch.value.target_header) = N
        /\ \A j \in 1..N :
              /\ batch.value.target_affine[j] = fetched[j].sample.target_affine
              /\ batch.value.target_header[j] = fetched[j].sample.target_header
        /\ Len(batch.value.center_percent) = N

\* The patch is larger than the volume on some axis.
Exceeds(patch_size, shape) == \E a \in Axes : patch_size[a] > shape[a]

\* C11: in patch-crop mode a patch_size that exceeds the target label or
\* the atlas labels on some axis ends __getitem__ with the size-mismatch
\* AssertionError and nothing else: no worker goes on to crop, normalize or
\* encode for that position, the configuration is as constructed and no
\* Sample is returned.
C11_OversizedPatchFails ==
    \A p \in Positions :
        ( /\ PatchMode
          /\ \/ Exceeds(self.patch_size, TargetShapeAt(p))
             \/ Exceeds(self.patch_size, AtlasShapeAt(p)) ) =>
            /\ \A w \in Workers : pc[w] # "idle" => loc[w].position # p
            /\ fetched[p].done => fetched[p].raised = "AssertionError"
            /\ self = constructed

\* The patch fits the target but not the atlas, and the call has failed.
C11_Witness ==
    \E p \in Positions :
        /\ PatchMode
        /\ ~Exceeds(self.patch_size, TargetShapeAt(p))
        /\ Exceeds(self.patch_size, AtlasShapeAt(p))
        /\ fetched[p].done
        /\ fetched[p].raised = "AssertionError"

-----------------------------------------------------------------------------
(* __init__ from its search patterns: all_target_files and                 *)
(* all_atlas_files are what the file system lists, sorted, under the       *)
(* target pattern and under a separate atlas pattern.                      *)

AtlasPattern == "atlases/*"

\* utils.strsort(glob.glob(pattern)): glob.glob(None) raises TypeError,
\* the empty pattern matches nothing.
GlobSorted(pattern, target_files, atlas_files) ==
    CASE pattern = None -> [raised |-> "TypeError", value |-> <<>>]
      [] pattern = "" -> [raised |-> None, value |-> <<>>]
      [] pattern = TargetPattern -> [raised |-> None, value |-> target_files]
      [] pattern = AtlasPattern -> [raised |-> None, value |-> atlas_files]

\* Lines 111-113: _find_data_names is handed the patterns as __init__
\* received them, not self.atlas_search_path; then the table is checked
\* against n_class.
InitFindDataNames(slf, a, target_files, atlas_files) ==
    LET targets == GlobSorted(a.target_search_path, target_files, atlas_files)
        atlases == GlobSorted(a.atlas_search_path, target_files, atlas_files)
        names == FindDataNames(slf, targets.value, atlases.value, slf.image_suffix)
    IN  IF targets.raised # None THEN [raised |-> targets.raised, value |-> <<>>]
        ELSE IF atlases.raised # None THEN [raised |-> atlases.raised, value |-> <<>>]
        ELSE IF names.raised # None THEN names
        ELSE IF Len(slf.label_intensity) # slf.n_class
          THEN [raised |-> "AssertionError", value |-> names.value]
        ELSE names

AtlasFewPool == <<AtlasPlain, AtlasXA, AtlasXALabel>>

InitInit ==
    /\ ImageIdle
    /\ LabelIdle
    /\ RoiIdle
    /\ ItemIdle
    /\ \E atlas_search_path \in {None, "", TargetPattern, AtlasPattern} :
          /\ args = [target_search_path |-> TargetPattern,
                     atlas_search_path |-> atlas_search_path]
          /\ \E stage \in {"single", "multi"}, n \in 1..MaxNAtlas,
                table \in {<<0, 205>>, <<0, 205, 420>>} :
                self = [DefaultSelf EXCEPT
                          !.atlas_search_path =
                              InitAtlasSearchPath(atlas_search_path, TargetPattern),
                          !.stage = stage, !.n_atlas = n, !.label_intensity = table,
                          !.image_suffix = ImageSuffix, !.label_suffix = LabelSuffix]
    /\ all_target_files \in Listings(TargetPool)
    /\ all_atlas_files \in Listings(AtlasFewPool)
    /\ target_atlas_image_names = <<>>
    /\ op = "ready"

CallInit ==
    /\ op = "ready"
    /\ LET res == InitFindDataNames(self, args, all_target_files, all_atlas_files)
       IN  /\ target_atlas_image_names' = res.value
           /\ op' = IF res.raised = None THEN "__init__" ELSE res.raised
    /\ UNCHANGED <<self, all_target_files, all_atlas_files, args, labelVars, roiVars, itemVars, imageVars>>

NextInit == CallInit

SpecInit == InitInit /\ [][NextInit]_vars

\* C12: constructed without an atlas pattern (and with a target to find and
\* a table of n_class entries), __init__ succeeds and builds the keys from
\* the target listing as atlas pool: every atlas of a key is a discovered
\* target, and in single stage every target is paired with every
\* n_atlas-combination of the discovered targets.
C12_AtlasPoolDefaultsToTargets ==
    ( /\ args.atlas_search_path = None
      /\ op # "ready"
      /\ DiscoveredTargets # {}
      /\ Len(self.label_intensity) = self.n_class ) =>
        /\ op = "__init__"
        /\ \A i \in DOMAIN Keys : Range(Keys[i][2]) \subseteq DiscoveredTargets
        /\ self.stage = "single" =>
              \A t \in DiscoveredTargets : PairedWithCombinationsOf(t, DiscoveredTargets)

-----------------------------------------------------------------------------
(* _process_image on its own: every small array, both modalities, and      *)
(* every way of giving or omitting a_min and a_max.                        *)

MaxVoxel == 3

ImageArrays ==
    UNION {[shape : {<<n, 1, 1>>}, data : [Voxels(<<n, 1, 1>>) -> 0..MaxVoxel]]
           : n \in 1..MaxLabelLen}

\* a_min and a_max as passed to __init__.
BoundArgs == {Unset} \cup {Num(n) : n \in 0..MaxVoxel}

InitImage ==
    /\ LabelIdle
    /\ RoiIdle
    /\ ItemIdle
    /\ all_target_files = <<>>
    /\ all_atlas_files = <<>>
    /\ target_atlas_image_names = <<>>
    /\ \E a_min, a_max \in BoundArgs, method \in {None, "min-max"} :
          /\ args = [a_min |-> a_min, a_max |-> a_max]
          /\ self = [DefaultSelf EXCEPT !.a_min = InitAMin(a_min),
                                        !.a_max = InitAMax(a_min, a_max),
                                        !.kwargs = KwargsOf(method)]
    /\ call \in [data : ImageArrays, modality : {"mr", "ct"}, normalization : BOOLEAN]
    /\ processed = None
    /\ op = "ready"

CallProcessImage ==
    /\ op = "ready"
    /\ LET res == ProcessImage(self, call.data, call.modality, call.normalization)
       IN  /\ processed' = res.value
           /\ self' = [self EXCEPT !.kwargs = res.kwargs]
           /\ op' = IF res.raised = None THEN "_process_image" ELSE res.raised
    /\ UNCHANGED <<call, labelVars, namesVars, roiVars, itemVars>>

NextImage == CallProcessImage

SpecImage == InitImage /\ [][NextImage]_vars

\* The intensity x = s * sqrt(p / q) against an integer n >= 0.
AtMost(x, n) == x.s <= 0 \/ x.p <= n * n * x.q
AtLeast(x, n) == IF n = 0 THEN x.s >= 0 ELSE x.s > 0 /\ x.p >= n * n * x.q

\* C13: for ct the clipping interval takes each bound from its own
\* argument: whatever a_min and a_max were given or omitted, every voxel of
\* the clipped (and not normalized) volume is <= a_max when a_max was given
\* and >= a_min when a_min was given.
C13_CtClipsToGivenBounds ==
    (op = "_process_image" /\ call.modality = "ct" /\ ~call.normalization) =>
        \A v \in DOMAIN processed[1].data : \A c \in 1..self.channels :
            /\ args.a_max.kind = "num" => AtMost(processed[1].data[v][c], args.a_max.v)
            /\ args.a_min.kind = "num" => AtLeast(processed[1].data[v][c], args.a_min.v)

\* The target label of position p as loaded.
TargetLabelAt(p) ==
    disk[LabelName(self, At(target_atlas_image_names, batch_indices[p])[1])]

\* C14: the flags select one crop mode, and center_percent follows it.
\* With crop_roi and not crop_patch (and a foreground to find) the Sample
\* holds the target cut to the ROI, both ends included, and
\* center_percent = ((roi_begin + roi_end) // 2) / target label shape; with
\* crop_patch a returned Sample holds target patch center / target label
\* shape; with neither, nothing is cut and center_percent is (1/2, 1/2, 1/2).
C14_CropModeAndCenter ==
    \A p \in Positions :
        fetched[p].done =>
            LET shape == TargetShapeAt(p) IN
            CASE CropMode(self) = "roi" ->
                   ForegroundFlag(self, TargetLabelAt(p)) # {} =>
                       LET roi == GetRoiCoordinates(self, TargetLabelAt(p),
                                                    [num |-> 1, den |-> 10]).value
                           roi_begin == roi[1]
                           roi_end == roi[2]
                           center == [a \in Axes |-> (roi_begin[a] + roi_end[a]) \div 2]
                       IN  /\ fetched[p].raised = None
                           /\ fetched[p].sample.center_percent = CenterPercent(center, shape)
                           /\ fetched[p].sample.target_label =
                                  ProcessLabel(self, Crop(TargetLabelAt(p), roi_begin,
                                                          [a \in Axes |-> roi_end[a] + 1]))
              [] CropMode(self) = "patch" ->
                   fetched[p].raised = None =>
                       /\ fetched[p].sample.center_percent =
                              CenterPercent(GeometricCenter(shape), shape)
                       /\ fetched[p].sample.target_label[1].shape = self.patch_size
              [] CropMode(self) = "none" ->
                   /\ fetched[p].raised = None
                   /\ fetched[p].sample.center_percent = [a \in Axes |-> Quotient(1, 2)]
                   /\ fetched[p].sample.target_label = ProcessLabel(self, TargetLabelAt(p))

\* The volumes of position p as loaded: target image, atlas images and
\* atlas labels.
TargetImageAt(p) == disk[At(target_atlas_image_names, batch_indices[p])[1]]

AtlasImagesAt(p) ==
    LET names == At(target_atlas_image_names, batch_indices[p])[2]
    IN  [i \in DOMAIN names |-> disk[names[i]]]

AtlasLabelsAt(p) ==
    LET names == At(target_atlas_image_names, batch_indices[p])[2]
    IN  [i \in DOMAIN names |-> disk[LabelName(self, names[i])]]

\* The slice of a volume of this shape that a patch of this size centered
\* at shape // 2 takes: from shape // 2 - size // 2, size voxels.
CenteredBegin(shape, size) == [a \in Axes |-> shape[a] \div 2 - size[a] \div 2]
CenteredEnd(shape, size) == [a \in Axes |-> shape[a] \div 2 - size[a] \div 2 + size[a]]

\* C15: in patch-crop mode without patch_center, random_crop and crop_roi,
\* target and atlases are each cut around their own shape // 2: the target
\* image and label with the same bounds, the atlas images and labels with
\* the same bounds, and every volume cut has the patch size.
C15_DefaultCenterCrop ==
    \A w \in Workers :
        (PatchMode /\ PatchPolicy(self) = "default" /\ pc[w] = "target") =>
            LET p == loc[w].position
                size == self.patch_size
                tb == CenteredBegin(TargetShapeAt(p), size)
                te == CenteredEnd(TargetShapeAt(p), size)
                ab == CenteredBegin(AtlasShapeAt(p), size)
                ae == CenteredEnd(AtlasShapeAt(p), size)
            IN  /\ loc[w].target_image = Crop(TargetImageAt(p), tb, te)
                /\ loc[w].target_label = Crop(TargetLabelAt(p), tb, te)
                /\ loc[w].target_image.shape = size
                /\ loc[w].target_label.shape = size
                /\ \A i \in DOMAIN loc[w].atlases_image :
                      /\ loc[w].atlases_image[i] = Crop(AtlasImagesAt(p)[i], ab, ae)
                      /\ loc[w].atlases_label[i] = Crop(AtlasLabelsAt(p)[i], ab, ae)
                      /\ loc[w].atlases_image[i].shape = size
                      /\ loc[w].atlases_label[i].shape = size

\* Target and atlas differ in shape, and their patches were cut from
\* different places.
C15_Witness ==
    \E w \in Workers :
        /\ PatchMode
        /\ PatchPolicy(self) = "default"
        /\ pc[w] = "target"
        /\ loc[w].target_shape # loc[w].atlas_shape
        /\ loc[w].target_begin # loc[w].atlas_begin
        /\ loc[w].target_label.shape = self.patch_size
        /\ self.patch_size # loc[w].target_shape

\* The centers the foreground-constrained random policy may pick on axis a:
\* patch_size // 2 <= c <= shape - patch_size + patch_size // 2, at most
\* patch_size - patch_size // 2 - 1 away from the foreground center.
ForegroundCenters(size, shape, roi_center) ==
    {c \in [Axes -> 0..MaxDimX] :
        \A a \in Axes :
            /\ size[a] \div 2 <= c[a]
            /\ c[a] <= shape[a] - size[a] + size[a] \div 2
            /\ Abs(c[a] - roi_center[a]) <= size[a] - size[a] \div 2 - 1}

\* C16: in patch-crop mode with random_crop and crop_roi and no
\* patch_center, for a label with foreground and a patch that fits,
\* __getitem__ returns a Sample cut around a center that lies, on every
\* axis, in the range that keeps the patch in the volume and within
\* patch_size - patch_size // 2 - 1 of the foreground center.
C16_ForegroundRandomCenter ==
    \A p \in Positions :
        ( /\ PatchMode
          /\ PatchPolicy(self) = "random_foreground"
          /\ PatchFitsAt(p)
          /\ ForegroundFlag(self, TargetLabelAt(p)) # {}
          /\ fetched[p].done ) =>
            /\ fetched[p].raised = None
            /\ \E roi_center \in GetForegroundCenter(self, TargetLabelAt(p)) :
               \E c \in ForegroundCenters(self.patch_size, TargetShapeAt(p), roi_center) :
                  /\ fetched[p].sample.center_percent = CenterPercent(c, TargetShapeAt(p))
                  /\ fetched[p].sample.target_label =
                         ProcessLabel(self, Crop(TargetLabelAt(p),
                                                 PatchBegin(c, self.patch_size),
                                                 PatchEnd(c, self.patch_size)))

=============================================================================
